---- MODULE Spec2Model ----
(***************************************************************************)
(* A model of the BMP codec of sergeymakinen/go-bmp: the encoder of        *)
(* writer.go and the decoder of reader.go, at the level of the bytes they  *)
(* write and read.                                                         *)
(*                                                                         *)
(* Byte slices are sequences of 0..255; Go's 0-based index i is the        *)
(* sequence index i+1.  A uint32 is kept as the pair <<hi, lo>> of its two *)
(* 16-bit halves, so that its arithmetic wraps at 2^32 as in the program.  *)
(***************************************************************************)
EXTENDS Integers, Sequences, FiniteSets, TLC

VARIABLES
    m,      \* the image handed to Encode (kind "None" when a file is decoded)
    file,   \* the byte stream: what Encode wrote, what the decoder reads (d.r)
    pos,    \* number of bytes the decoder has consumed from file
    pc,     \* "encode", "config", "decode", "rle", "done"
    err,    \* the error of the call that ended last
    d,      \* the decoder struct: bpp, topDown, rgb565, noAlpha, rle, c
    img,    \* the image under construction / returned by Decode
    cur,    \* decodeRLE's cursor: [x, y]
    op,     \* what the last RLE opcode did (kind, arguments, pixels written)
    io      \* what the calls did: Encode's header, palette length and row writes,
            \* DecodeConfig's error and end position, the reads Decode made

vars == <<m, file, pos, pc, err, d, img, cur, op, io>>

----------------------------------------------------------------------------
\* Program constants

fileHeaderLen == 14
infoHeaderLen == 40
v4InfoHeaderLen == 108
v5InfoHeaderLen == 124
biRGB == 0
biRLE8 == 1
biRLE4 == 2
biBitFields == 3
\* var b [1024]byte, the header buffer of DecodeConfig
HeaderBufLen == 1024
\* var b [256]byte, the run buffer of decodeRLE
RunBufLen == 256

----------------------------------------------------------------------------
\* Bytes, bits and fixed-width integers

Byte == 0..255

Pow2(k) == 2 ^ k

Bit(v, k) == (v \div Pow2(k)) % 2

\* a | b on uint8
Or8(a, b) ==
    LET f[k \in 0..8] ==
            IF k = 8 THEN 0
            ELSE (IF Bit(a, k) = 1 \/ Bit(b, k) = 1 THEN Pow2(k) ELSE 0) + f[k + 1]
    IN f[0]

\* a &^ b on uint8
AndNot8(a, b) ==
    LET f[k \in 0..8] ==
            IF k = 8 THEN 0
            ELSE (IF Bit(a, k) = 1 /\ Bit(b, k) = 0 THEN Pow2(k) ELSE 0) + f[k + 1]
    IN f[0]

\* uint8(v << k)
Shl8(v, k) == (v * Pow2(k)) % 256

\* a row length left as it is, not rounded up
Unaligned(v) == v

\* (v + 3) &^ 3
Align4(v) == ((v + 3) \div 4) * 4

\* Go's b[i] for a slice kept as a sequence
At(b, i) == b[i + 1]

\* Go's b[lo:hi]
Slice(b, lo, hi) == [k \in 1..(hi - lo) |-> b[lo + k]]

Zeros(n) == [k \in 1..n |-> 0]

\* uint32 as <<hi, lo>>, each half in 0..65535
U32(n) == <<n \div 65536, n % 65536>>

U32Add(a, c) ==
    LET lo == a[2] + c[2]
        hi == a[1] + c[1] + (lo \div 65536)
    IN <<hi % 65536, lo % 65536>>

\* colors*4 on uint32
U32Mul4(a) ==
    LET lo == a[2] * 4
        hi == a[1] * 4 + (lo \div 65536)
    IN <<hi % 65536, lo % 65536>>

\* int(u) for a uint32 below 2^31
U32Int(a) == a[1] * 65536 + a[2]

\* int(int32(u))
I32Int(a) == IF a[1] >= 32768 THEN (a[1] - 65536) * 65536 + a[2] ELSE U32Int(a)

U32Bytes(a) == <<a[2] % 256, a[2] \div 256, a[1] % 256, a[1] \div 256>>

U16Bytes(n) == <<n % 256, n \div 256>>

readUint16(b, off) == At(b, off) + At(b, off + 1) * 256

readUint32(b, off) ==
    <<At(b, off + 2) + At(b, off + 3) * 256, At(b, off) + At(b, off + 1) * 256>>

----------------------------------------------------------------------------
\* io.ReadFull over the stream r from position p: n bytes, or io.EOF when none
\* is left, or io.ErrUnexpectedEOF when fewer than n are.  A read of 0 bytes
\* succeeds.

ReadFull(r, p, n) ==
    LET avail == Len(r) - p
    IN  IF n = 0 THEN [err |-> "nil", data |-> <<>>, pos |-> p]
        ELSE IF avail >= n THEN [err |-> "nil", data |-> Slice(r, p, p + n), pos |-> p + n]
        ELSE IF avail = 0 THEN [err |-> "EOF", data |-> <<>>, pos |-> p]
        ELSE [err |-> "ErrUnexpectedEOF", data |-> <<>>, pos |-> Len(r)]

----------------------------------------------------------------------------
\* writer.go.  Each row encoder returns the bytes it writes and the number of
\* Write calls it makes.  An image is [kind, dx, dy, Stride, Palette, Pix];
\* colours are <<R, G, B, A>>.

\* color.RGBA.RGBA(): the 16-bit value of an 8-bit channel
RGBA16(c) == c * 257

\* one row of encodeSmallPaletted: b is the row buffer, kept between rows
RECURSIVE packRow(_, _, _, _, _, _, _, _)
packRow(b, pix, bpp, dx, base, x, byte, bit) ==
    IF x >= dx THEN b
    ELSE LET v  == Or8(AndNot8(At(b, byte), Shl8(Pow2(bpp) - 1, bit)),
                       Shl8(At(pix, base + x), bit))
             b2 == [b EXCEPT ![byte + 1] = v]
         IN  IF bit = 0
             THEN packRow(b2, pix, bpp, dx, base, x + 1, byte + 1, 8 - bpp)
             ELSE packRow(b2, pix, bpp, dx, base, x + 1, byte, bit - bpp)

RECURSIVE smallRows(_, _, _, _, _, _, _)
smallRows(b, pix, bpp, dx, stride, y, acc) ==
    IF y < 0 THEN acc
    ELSE LET row == packRow(b, pix, bpp, dx, y * stride, 0, 0, 8 - bpp)
         IN  smallRows(row, pix, bpp, dx, stride, y - 1,
                       [bytes |-> acc.bytes \o row, writes |-> acc.writes + 1])

encodeSmallPaletted(pix, bpp, dx, dy, stride, step) ==
    smallRows(Zeros(step), pix, bpp, dx, stride, dy - 1, [bytes |-> <<>>, writes |-> 0])

RECURSIVE palettedRows(_, _, _, _, _, _)
palettedRows(pix, dx, stride, step, y, acc) ==
    IF y < 0 THEN acc
    ELSE LET min == y * stride + 0
             max == y * stride + dx
             w1  == acc.bytes \o Slice(pix, min, max)
         IN  palettedRows(pix, dx, stride, step, y - 1,
                 IF dx < step
                 THEN [bytes |-> w1 \o Zeros(step - dx), writes |-> acc.writes + 2]
                 ELSE [bytes |-> w1, writes |-> acc.writes + 1])

encodePaletted(pix, dx, dy, stride, step) ==
    palettedRows(pix, dx, stride, step, dy - 1, [bytes |-> <<>>, writes |-> 0])

\* the 24-bit pixel at pix[i..]: buf[off+2], buf[off+1], buf[off+0] = R, G, B
BGR(pix, i, c) == At(pix, i + 2 - c)

\* the 32-bit pixel of encodeNRGBA: B, G, R, A as stored
BGRA(pix, i, c) == IF c = 3 THEN At(pix, i + 3) ELSE At(pix, i + 2 - c)

\* a pixel of encodeRGBA stored as it is, without the division by alpha
storePremultiplied(pix, i, c) == IF c = 3 THEN At(pix, i + 3) ELSE At(pix, i + 2 - c)

\* the 32-bit pixel of encodeRGBA: alpha-premultiplied in, straight alpha out
unpremultiply(pix, i, c) ==
    LET a == At(pix, i + 3)
    IN  IF a = 0 THEN 0
        ELSE IF a = 255 THEN (IF c = 3 THEN 255 ELSE At(pix, i + 2 - c))
        ELSE IF c = 3 THEN a
        ELSE (((At(pix, i + 2 - c) * 65535) \div a) \div 256) % 256

\* the generic encoder's pixel: m.At(x, y).RGBA() gives 16-bit channels, kept
\* in Pix for an image of kind "Other"; byte(r >> 8) is stored
At16(pix, i, c) == (At(pix, i + 2 - c) \div 256) % 256

\* byte c of the stored pixel whose source is at pix[i..], for each row loop
storedByte(how, pix, i, c) ==
    CASE how = "BGR" -> BGR(pix, i, c)
      [] how = "BGRA" -> BGRA(pix, i, c)
      [] how = "unpremultiply" -> unpremultiply(pix, i, c)
      [] OTHER -> At16(pix, i, c)

\* the loops "for y := dy - 1; y >= 0; y-- { fill buf; w.Write(buf) }" of the
\* truecolour encoders: k bytes a pixel; the bytes of buf past the last pixel
\* keep make's zeros
RECURSIVE trueRows(_, _, _, _, _, _, _, _)
trueRows(pix, dx, stride, step, k, how, y, acc) ==
    IF y < 0 THEN acc
    ELSE LET buf == [j \in 1..step |->
                        IF j <= dx * k
                        THEN storedByte(how, pix, y * stride + 4 * ((j - 1) \div k), (j - 1) % k)
                        ELSE 0]
         IN  trueRows(pix, dx, stride, step, k, how, y - 1,
                      [bytes |-> acc.bytes \o buf, writes |-> acc.writes + 1])

encodeRGBA(pix, dx, dy, stride, step, opaque) ==
    IF opaque
    THEN trueRows(pix, dx, stride, step, 3, "BGR", dy - 1, [bytes |-> <<>>, writes |-> 0])
    ELSE trueRows(pix, dx, stride, step, 4, "unpremultiply", dy - 1,
                  [bytes |-> <<>>, writes |-> 0])

encodeNRGBA(pix, dx, dy, stride, step, opaque) ==
    IF opaque
    THEN trueRows(pix, dx, stride, step, 3, "BGR", dy - 1, [bytes |-> <<>>, writes |-> 0])
    ELSE trueRows(pix, dx, stride, step, 4, "BGRA", dy - 1, [bytes |-> <<>>, writes |-> 0])

encode(mm, step) ==
    trueRows(mm.Pix, mm.dx, mm.Stride, step, 3, "At16", mm.dy - 1,
             [bytes |-> <<>>, writes |-> 0])

\* m.Opaque() of image.RGBA and image.NRGBA: every alpha in the bounds is 0xff
Opaque(mm) ==
    \A y \in 0..(mm.dy - 1) : \A x \in 0..(mm.dx - 1) :
        At(mm.Pix, y * mm.Stride + 4 * x + 3) = 255

\* binary.Write(w, binary.LittleEndian, h): the 54 bytes of the header struct
headerBytes(h) ==
    <<66, 77>> \o U32Bytes(h.fileSize) \o <<0, 0, 0, 0>> \o U32Bytes(h.pixOffset)
    \o U32Bytes(h.dibHeaderSize) \o U32Bytes(h.width) \o U32Bytes(h.height)
    \o U16Bytes(h.colorPlane) \o U16Bytes(h.bpp) \o U32Bytes(h.compression)
    \o U32Bytes(h.imageSize) \o U32Bytes(h.xPixelsPerMeter) \o U32Bytes(h.yPixelsPerMeter)
    \o U32Bytes(h.colorUse) \o U32Bytes(h.colorImportant)

\* the header Encode starts from
header0(dx, dy) ==
    [fileSize |-> U32(fileHeaderLen + infoHeaderLen),
     pixOffset |-> U32(fileHeaderLen + infoHeaderLen),
     dibHeaderSize |-> U32(infoHeaderLen),
     width |-> U32(dx), height |-> U32(dy),
     colorPlane |-> 1, bpp |-> 0, compression |-> U32(0), imageSize |-> U32(0),
     xPixelsPerMeter |-> U32(0), yPixelsPerMeter |-> U32(0),
     colorUse |-> U32(0), colorImportant |-> U32(0)]

\* the depths picked with < in place of <=
palettedBppStrict(n) == IF n < 2 THEN 1 ELSE IF n < 4 THEN 2 ELSE IF n < 16 THEN 4 ELSE 8

\* the depth Encode picks for a palette of n colours
palettedBpp(n) == IF n <= 2 THEN 1 ELSE IF n <= 4 THEN 2 ELSE IF n <= 16 THEN 4 ELSE 8

\* the bytes of palette entry i as Encode stores them: B, G, R, 0xFF
paletteEntry(c, k) ==
    IF k = 3 THEN 255 ELSE (RGBA16(c[3 - k]) \div 256) % 256

\* the first switch of Encode: the header, the row length and the palette
\* bytes for the image's representation
encodeFormat(mm) ==
    LET h0 == header0(mm.dx, mm.dy)
        sized(h, step, pal) ==
            [h EXCEPT !.imageSize = U32(mm.dy * step),
                      !.fileSize = U32Add(U32Add(h.fileSize, U32(Len(pal))), U32(mm.dy * step)),
                      !.pixOffset = U32Add(h.pixOffset, U32(Len(pal)))]
    IN  CASE mm.kind = "Gray" ->
               LET step == Align4(mm.dx)
                   pal  == [j \in 1..1024 |-> IF (j - 1) % 4 = 3 THEN 255 ELSE (j - 1) \div 4]
               IN  [err |-> "nil", step |-> step, palette |-> pal, hasPalette |-> TRUE,
                    opaque |-> FALSE, h |-> [sized(h0, step, pal) EXCEPT !.bpp = 8]]
          [] mm.kind = "Paletted" ->
               IF Len(mm.Palette) = 0 \/ Len(mm.Palette) > 256
               THEN [err |-> "FormatError", step |-> 0, palette |-> <<>>,
                     hasPalette |-> FALSE, opaque |-> FALSE, h |-> h0]
               ELSE
               LET bpp    == palettedBpp(Len(mm.Palette))
                   colors == IF Len(mm.Palette) < Pow2(bpp) THEN Len(mm.Palette) ELSE Pow2(bpp)
                   use    == IF Len(mm.Palette) < Pow2(bpp) THEN U32(colors) ELSE U32(0)
                   step   == IF bpp < 8
                             THEN Align4((mm.dx + (8 \div bpp) - 1) \div (8 \div bpp))
                             ELSE Align4(mm.dx)
                   pal    == [j \in 1..(colors * 4) |->
                                 IF (j - 1) \div 4 < Len(mm.Palette) /\ (j - 1) \div 4 < Pow2(bpp)
                                 THEN paletteEntry(mm.Palette[(j - 1) \div 4 + 1], (j - 1) % 4)
                                 ELSE 0]
               IN  [err |-> "nil", step |-> step, palette |-> pal, hasPalette |-> TRUE,
                    opaque |-> FALSE,
                    h |-> [sized(h0, step, pal) EXCEPT !.bpp = bpp, !.colorUse = use]]
          [] mm.kind \in {"RGBA", "NRGBA"} ->
               LET opaque == Opaque(mm)
                   step   == IF opaque THEN Align4(3 * mm.dx) ELSE 4 * mm.dx
               IN  [err |-> "nil", step |-> step, palette |-> <<>>, hasPalette |-> FALSE,
                    opaque |-> opaque,
                    h |-> [sized(h0, step, <<>>) EXCEPT !.bpp = IF opaque THEN 24 ELSE 32]]
          [] OTHER ->
               LET step == Align4(3 * mm.dx)
               IN  [err |-> "nil", step |-> step, palette |-> <<>>, hasPalette |-> FALSE,
                    opaque |-> FALSE, h |-> [sized(h0, step, <<>>) EXCEPT !.bpp = 24]]

\* the rows written without the test for an empty image
encodeRowsAlways(mm, f) ==
    CASE mm.kind = "Gray" ->
            encodePaletted(mm.Pix, mm.dx, mm.dy, mm.Stride, f.step)
      [] mm.kind = "Paletted" ->
            IF f.h.bpp < 8
            THEN encodeSmallPaletted(mm.Pix, f.h.bpp, mm.dx, mm.dy, mm.Stride, f.step)
            ELSE encodePaletted(mm.Pix, mm.dx, mm.dy, mm.Stride, f.step)
      [] mm.kind = "RGBA" ->
            encodeRGBA(mm.Pix, mm.dx, mm.dy, mm.Stride, f.step, f.opaque)
      [] mm.kind = "NRGBA" ->
            encodeNRGBA(mm.Pix, mm.dx, mm.dy, mm.Stride, f.step, f.opaque)
      [] OTHER -> encode(mm, f.step)

\* the rows Encode writes after the header and the palette
encodeRows(mm, f) ==
    IF mm.dx = 0 \/ mm.dy = 0 THEN [bytes |-> <<>>, writes |-> 0]
    ELSE CASE mm.kind = "Gray" ->
                encodePaletted(mm.Pix, mm.dx, mm.dy, mm.Stride, f.step)
           [] mm.kind = "Paletted" ->
                IF f.h.bpp < 8
                THEN encodeSmallPaletted(mm.Pix, f.h.bpp, mm.dx, mm.dy, mm.Stride, f.step)
                ELSE encodePaletted(mm.Pix, mm.dx, mm.dy, mm.Stride, f.step)
           [] mm.kind = "RGBA" ->
                encodeRGBA(mm.Pix, mm.dx, mm.dy, mm.Stride, f.step, f.opaque)
           [] mm.kind = "NRGBA" ->
                encodeNRGBA(mm.Pix, mm.dx, mm.dy, mm.Stride, f.step, f.opaque)
           [] OTHER -> encode(mm, f.step)

\* Encode(w, m): the error, the bytes written to w, and what they consist of
Encode(mm) ==
    IF mm.dx < 0 \/ mm.dy < 0
    THEN [err |-> "FormatError", out |-> <<>>, h |-> header0(0, 0), palette |-> <<>>,
          rows |-> <<>>, rowWrites |-> 0]
    ELSE LET f == encodeFormat(mm)
         IN  IF f.err # "nil"
             THEN [err |-> f.err, out |-> <<>>, h |-> f.h, palette |-> <<>>,
                   rows |-> <<>>, rowWrites |-> 0]
             ELSE LET rows == encodeRows(mm, f)
                  IN  [err |-> "nil",
                       out |-> headerBytes(f.h) \o f.palette \o rows.bytes,
                       h |-> f.h, palette |-> f.palette,
                       rows |-> rows.bytes, rowWrites |-> rows.writes]

----------------------------------------------------------------------------
\* reader.go: DecodeConfig

\* the error DecodeConfig returns for a failed header read
normEOF(e) == IF e = "EOF" THEN "ErrUnexpectedEOF" ELSE e

noConfig == [ColorModel |-> <<>>, Width |-> 0, Height |-> 0]

decoder0 ==
    [bpp |-> 0, topDown |-> FALSE, rgb565 |-> FALSE, noAlpha |-> FALSE, rle |-> FALSE,
     c |-> noConfig]

\* a return of DecodeConfig: the error, the stream position, the decoder
ret(e, p, dd) == [err |-> e, pos |-> p, d |-> dd]

\* the masks of the three recognised BitFields layouts, tested on the header
\* buffer b
isRGB565(b, bpp) ==
    bpp = 16 /\ readUint32(b, 54) = U32(63488) /\ readUint32(b, 58) = U32(2016)
             /\ readUint32(b, 62) = U32(31)

isRGB555(b, bpp) ==
    bpp = 16 /\ readUint32(b, 54) = U32(31744) /\ readUint32(b, 58) = U32(992)
             /\ readUint32(b, 62) = U32(31)

isRGB888(b, bpp, infoLen) ==
    bpp = 32 /\ readUint32(b, 54) = <<255, 0>> /\ readUint32(b, 58) = <<0, 65280>>
             /\ readUint32(b, 62) = <<0, 255>>
             /\ (infoLen = U32(infoHeaderLen) \/ readUint32(b, 66) = <<65280, 0>>)

\* a palette read in R, G, B order
paletteOfRGBOrder(b, colors) ==
    [i \in 1..colors |-> <<At(b, 4 * (i - 1) + 0), At(b, 4 * (i - 1) + 1),
                           At(b, 4 * (i - 1) + 2), 255>>]

\* pcm[i] = color.RGBA{b[4*i+2], b[4*i+1], b[4*i+0], 0xFF}
paletteOf(b, colors) ==
    [i \in 1..colors |-> <<At(b, 4 * (i - 1) + 2), At(b, 4 * (i - 1) + 1),
                           At(b, 4 * (i - 1) + 0), 255>>]

\* the last switch of DecodeConfig: the offset test, the palette, the config.
\* dd is the decoder so far, p the stream position after the headers.
configFor(r, p, dd, offset, infoLen, colorMaskLen, colors0, width, height) ==
    IF dd.bpp \in {1, 2, 4, 8}
    THEN LET colors == IF colors0 = U32(0) THEN U32(Pow2(dd.bpp)) ELSE colors0
             nbytes == U32Mul4(colors)
         IN  IF offset # U32Add(U32(fileHeaderLen), U32Add(infoLen, nbytes))
             THEN ret("UnsupportedError", p, dd)
             ELSE IF nbytes[1] > 0 \/ nbytes[2] > HeaderBufLen
             THEN ret("panic", p, dd)             \* b[:colors*4] past the buffer
             ELSE LET rd == ReadFull(r, p, nbytes[2])
                  IN  IF rd.err # "nil" THEN ret(rd.err, rd.pos, dd)
                      ELSE IF colors[1] > 0 \/ 4 * colors[2] > HeaderBufLen
                      THEN ret("panic", rd.pos, dd)   \* b[4*i+2] past the buffer
                      ELSE ret("nil", rd.pos,
                               [dd EXCEPT !.c = [ColorModel |-> paletteOf(rd.data, colors[2]),
                                                 Width |-> width, Height |-> height]])
    ELSE IF dd.bpp \in {16, 24, 32}
    THEN IF offset # U32Add(U32(fileHeaderLen), U32Add(infoLen, U32(colorMaskLen)))
         THEN ret("UnsupportedError", p, dd)
         ELSE ret("nil", p, [dd EXCEPT !.c = [ColorModel |-> <<>>,
                                              Width |-> width, Height |-> height]])
    ELSE ret("UnsupportedError", p, dd)

\* the compression switch of DecodeConfig, on the header buffer b (the file
\* header, the DIB header and, when read, the mask table)
afterMasks(r, p, b, dd0, offset, infoLen, colorMaskLen, width, height) ==
    LET bpp         == readUint16(b, 28)
        compression == readUint32(b, 30)
        colors      == readUint32(b, 46)
        dd1         == [dd0 EXCEPT !.bpp = bpp]
        known       == isRGB565(b, bpp) \/ isRGB555(b, bpp) \/ isRGB888(b, bpp, infoLen)
        isRLE       == /\ \/ (bpp = 4 /\ compression = U32(biRLE4))
                          \/ (bpp = 8 /\ compression = U32(biRLE8))
                       /\ ~dd0.topDown
        dd2         == IF compression = U32(biBitFields)
                       THEN IF known
                            THEN [dd1 EXCEPT !.rgb565 = isRGB565(b, bpp),
                                             !.noAlpha = (infoLen = U32(infoHeaderLen))]
                            ELSE dd1
                       ELSE IF isRLE THEN [dd1 EXCEPT !.rle = TRUE] ELSE dd1
        comp2       == IF compression = U32(biBitFields)
                       THEN (IF known THEN U32(biRGB) ELSE compression)
                       ELSE IF isRLE THEN U32(biRGB) ELSE compression
    IN  IF comp2 # U32(biRGB) THEN ret("UnsupportedError", p, dd2)
        ELSE configFor(r, p, dd2, offset, infoLen, colorMaskLen, colors, width, height)

\* decoder.DecodeConfig on the stream r
DecodeConfig(r) ==
    LET rd1 == ReadFull(r, 0, fileHeaderLen + 4)
    IN  IF rd1.err # "nil" THEN ret(normEOF(rd1.err), rd1.pos, decoder0)
        ELSE IF Slice(rd1.data, 0, 2) # <<66, 77>> THEN ret("FormatError", rd1.pos, decoder0)
        ELSE
        LET offset  == readUint32(rd1.data, 10)
            infoLen == readUint32(rd1.data, 14)
        IN  IF infoLen \notin {U32(infoHeaderLen), U32(v4InfoHeaderLen), U32(v5InfoHeaderLen)}
            THEN ret("UnsupportedError", rd1.pos, decoder0)
            ELSE
            LET rd2 == ReadFull(r, rd1.pos, U32Int(infoLen) - 4)
            IN  IF rd2.err # "nil" THEN ret(normEOF(rd2.err), rd2.pos, decoder0)
                ELSE
                LET b       == rd1.data \o rd2.data
                    width   == I32Int(readUint32(b, 18))
                    h0      == I32Int(readUint32(b, 22))
                    height  == IF h0 < 0 THEN -h0 ELSE h0
                    dd0     == [decoder0 EXCEPT !.topDown = (h0 < 0)]
                IN  IF width < 0 \/ height < 0 THEN ret("UnsupportedError", rd2.pos, dd0)
                    ELSE IF readUint16(b, 26) # 1 THEN ret("UnsupportedError", rd2.pos, dd0)
                    ELSE IF readUint32(b, 30) = U32(biBitFields) /\ infoLen = U32(infoHeaderLen)
                    THEN LET rd3 == ReadFull(r, rd2.pos, 4 * 3)
                         IN  IF rd3.err # "nil"
                             THEN ret(normEOF(rd3.err), rd3.pos,
                                      [dd0 EXCEPT !.bpp = readUint16(b, 28)])
                             ELSE afterMasks(r, rd3.pos, b \o rd3.data, dd0, offset, infoLen,
                                             4 * 3, width, height)
                    ELSE afterMasks(r, rd2.pos, b, dd0, offset, infoLen, 0, width, height)

----------------------------------------------------------------------------
\* reader.go: the uncompressed row decoders.  Each returns the error, the new
\* stream position, the image (noImage on error) and the ReadFull calls made.

noImage == [kind |-> "None", dx |-> 0, dy |-> 0, Stride |-> 0, Palette |-> <<>>, Pix |-> <<>>]

\* image.NewPaletted / image.NewRGBA / image.NewNRGBA: a zeroed buffer
newImage(kind, w, h, bytesPerPixel, palette) ==
    [kind |-> kind, dx |-> w, dy |-> h, Stride |-> bytesPerPixel * w,
     Palette |-> palette, Pix |-> Zeros(bytesPerPixel * w * h)]

dret(e, p, im, n) == [err |-> e, pos |-> p, img |-> im, reads |-> n]

\* the loop "for y := y0; y != y1; y += yDelta" reading, for each row, the
\* chunks of the given lengths with io.ReadFull: the first failing read ends it
RECURSIVE readRows(_, _, _, _, _, _)
readRows(r, p, rowsLeft, chunks, c, n) ==
    IF rowsLeft = 0 THEN [err |-> "nil", pos |-> p, reads |-> n]
    ELSE IF c > Len(chunks) THEN readRows(r, p, rowsLeft - 1, chunks, 1, n)
    ELSE LET rd == ReadFull(r, p, chunks[c])
         IN  IF rd.err # "nil" THEN [err |-> rd.err, pos |-> rd.pos, reads |-> n + 1]
             ELSE readRows(r, rd.pos, rowsLeft, chunks, c + 1, n + 1)

\* a row order that ignores the direction: stream row y at buffer row y
rowReadForward(dd, y) == y

\* the number (from 0) of the row of the stream that is stored at buffer row y
rowRead(dd, y) == IF dd.topDown THEN y ELSE dd.c.Height - 1 - y

\* the bytes of the row of the stream stored at buffer row y, for rows of
\* rowLen bytes read from position p0 on
rowBytes(r, p0, dd, rowLen, y) ==
    Slice(r, p0 + rowRead(dd, y) * rowLen, p0 + (rowRead(dd, y) + 1) * rowLen)

\* p[x] = (b[byte] >> bit) & (1<<d.bpp - 1), byte and bit as the loop steps them
smallPixel(dd, b, x) ==
    LET pixelsPerByte == 8 \div dd.bpp
        byte == x \div pixelsPerByte
        bit  == (8 - dd.bpp) - dd.bpp * (x % pixelsPerByte)
    IN  (At(b, byte) \div Pow2(bit)) % Pow2(dd.bpp)

decodeSmallPaletted(r, p, dd) ==
    LET paletted == newImage("Paletted", dd.c.Width, dd.c.Height, 1, dd.c.ColorModel)
        rowLen   == Align4((dd.c.Width + (8 \div dd.bpp) - 1) \div (8 \div dd.bpp))
        rr       == readRows(r, p, dd.c.Height, <<rowLen>>, 1, 0)
    IN  IF dd.c.Width = 0 \/ dd.c.Height = 0 THEN dret("nil", p, paletted, 0)
        ELSE IF rr.err # "nil" THEN dret(rr.err, rr.pos, noImage, rr.reads)
        ELSE dret("nil", rr.pos,
                  [paletted EXCEPT !.Pix =
                      [k \in 1..(dd.c.Width * dd.c.Height) |->
                          smallPixel(dd, rowBytes(r, p, dd, rowLen, (k - 1) \div dd.c.Width),
                                     (k - 1) % dd.c.Width)]],
                  rr.reads)

decodePaletted(r, p, dd) ==
    LET paletted == newImage("Paletted", dd.c.Width, dd.c.Height, 1, dd.c.ColorModel)
        pad      == IF dd.c.Width % 4 # 0 THEN 4 - (dd.c.Width % 4) ELSE 0
        rowLen   == dd.c.Width + pad
        rr       == readRows(r, p, dd.c.Height,
                             IF pad # 0 THEN <<dd.c.Width, pad>> ELSE <<dd.c.Width>>, 1, 0)
    IN  IF dd.c.Width = 0 \/ dd.c.Height = 0 THEN dret("nil", p, paletted, 0)
        ELSE IF rr.err # "nil" THEN dret(rr.err, rr.pos, noImage, rr.reads)
        ELSE dret("nil", rr.pos,
                  [paletted EXCEPT !.Pix =
                      [k \in 1..(dd.c.Width * dd.c.Height) |->
                          At(rowBytes(r, p, dd, rowLen, (k - 1) \div dd.c.Width),
                             (k - 1) % dd.c.Width)]],
                  rr.reads)

\* the Pix of a truecolour image of 4 bytes a pixel
truePix(r, p, dd, rowLen, how) ==
    [k \in 1..(4 * dd.c.Width * dd.c.Height) |->
        LET b == rowBytes(r, p, dd, rowLen, (k - 1) \div (4 * dd.c.Width))
            x == ((k - 1) % (4 * dd.c.Width)) \div 4
            c == (k - 1) % 4
        IN  CASE how = "RGB5x5" ->
                    LET pixel == readUint16(b, 2 * x)
                    IN  CASE c = 0 -> IF dd.rgb565 THEN Shl8((pixel \div 2048) % 32, 3)
                                      ELSE Shl8((pixel \div 1024) % 32, 3)
                          [] c = 1 -> IF dd.rgb565 THEN Shl8((pixel \div 32) % 64, 2)
                                      ELSE Shl8((pixel \div 32) % 32, 3)
                          [] c = 2 -> Shl8(pixel % 32, 3)
                          [] OTHER -> 255
              [] how = "RGB" -> IF c = 3 THEN 255 ELSE At(b, 3 * x + 2 - c)
              [] how = "NRGBA" ->
                    IF c = 3 THEN (IF dd.noAlpha THEN 255 ELSE At(b, 4 * x + 3))
                    ELSE At(b, 4 * x + 2 - c)
              [] OTHER -> IF c = 3 THEN At(b, 4 * x + 3) ELSE At(b, 4 * x + 2 - c)]

\* a truecolour row decoder: rows of rowLen bytes into an image of the kind
decodeTrue(r, p, dd, kind, rowLen, how) ==
    LET rgba == newImage(kind, dd.c.Width, dd.c.Height, 4, <<>>)
        rr   == readRows(r, p, dd.c.Height, <<rowLen>>, 1, 0)
    IN  IF dd.c.Width = 0 \/ dd.c.Height = 0 THEN dret("nil", p, rgba, 0)
        ELSE IF rr.err # "nil" THEN dret(rr.err, rr.pos, noImage, rr.reads)
        ELSE dret("nil", rr.pos, [rgba EXCEPT !.Pix = truePix(r, p, dd, rowLen, how)],
                  rr.reads)

decodeRGB5x5(r, p, dd) == decodeTrue(r, p, dd, "RGBA", Align4(2 * dd.c.Width), "RGB5x5")

decodeRGB(r, p, dd) == decodeTrue(r, p, dd, "RGBA", Align4(3 * dd.c.Width), "RGB")

\* a 32-bit decoder that always takes the stored alpha
decodeNRGBAStoredAlpha(r, p, dd) ==
    decodeTrue(r, p, dd, "NRGBA", 4 * dd.c.Width, "NRGBA as stored")

decodeNRGBA(r, p, dd) == decodeTrue(r, p, dd, "NRGBA", 4 * dd.c.Width, "NRGBA")

----------------------------------------------------------------------------
\* reader.go: decodeRLE.  The cursor record c is [x, y, b]: the position and
\* the run buffer "var b [256]byte", which read() and the absolute mode fill.
\* b is kept as the bytes stored in it so far; the bytes after them are 0.

\* b[i] of the run buffer
bufAt(b, i) == IF i < Len(b) THEN b[i + 1] ELSE 0

\* io.ReadFull(d.r, b[:n]) on the run buffer
bufRead(b, data) == data \o SubSeq(b, Len(data) + 1, Len(b))

\* a bounds test that lets the cursor onto the column after the last
isValidInclusive(x, y, stride, height) == x >= 0 /\ x <= stride /\ y >= 0 /\ y < height

isValid(x, y, stride, height) == x >= 0 /\ x < stride /\ y >= 0 /\ y < height

\* b with its first bytes replaced by data
SetPrefix(b, data) == [k \in 1..Len(b) |-> IF k <= Len(data) THEN data[k] ELSE b[k]]

\* "if !isValid() { return FormatError }; paletted.Pix[y*Stride+x] = c; x++"
\* on the state s of a run loop; an index past Pix panics.  wrote counts the
\* pixels stored and bad records a store outside [0,dx) x [0,dy).
put(s, y, im, v) ==
    IF ~isValid(s.x, y, im.Stride, im.dy) THEN [s EXCEPT !.st = "FormatError"]
    ELSE LET idx == y * im.Stride + s.x
         IN  IF idx < 0 \/ idx >= Len(s.pix) THEN [s EXCEPT !.st = "panic"]
             ELSE [s EXCEPT !.pix[idx + 1] = v, !.x = s.x + 1, !.wrote = s.wrote + 1,
                            !.bad = s.bad \/ ~(s.x >= 0 /\ s.x < im.dx /\ y >= 0 /\ y < im.dy)]

\* one pass of "for i, j := uint8(0), 0; i < b2; i++ { ... }" of the absolute
\* mode: the test, the body and the post statement; i is a uint8
absBody(s, b2, bpp, b, y, im) ==
    IF s.st # "run" THEN s
    ELSE IF ~(s.i < b2) THEN [s EXCEPT !.st = "exit"]
    ELSE IF bpp = 8
    THEN LET s1 == put(s, y, im, bufAt(b, s.i))
         IN  IF s1.st # "run" THEN s1 ELSE [s1 EXCEPT !.i = (s.i + 1) % 256]
    ELSE IF s.j >= RunBufLen THEN [s EXCEPT !.st = "panic"]   \* b[j] past the buffer
    ELSE LET s1 == put(s, y, im, (bufAt(b, s.j) \div 16) % 16)
             i1 == (s.i + 1) % 256
             s2 == IF s1.st = "run" /\ i1 < b2 THEN put(s1, y, im, bufAt(b, s.j) % 16) ELSE s1
         IN  IF s2.st # "run" THEN s2
             ELSE [s2 EXCEPT !.j = IF i1 % 2 # 0 THEN s.j + 1 ELSE s.j,
                             !.i = (i1 + 1) % 256]

\* one pass of "for i := uint8(0); i < b1; i++ { ... }" of the encoded mode
encBody(s, b1, b2, bpp, y, im) ==
    IF s.st # "run" THEN s
    ELSE IF ~(s.i < b1) THEN [s EXCEPT !.st = "exit"]
    ELSE LET v  == IF bpp = 8 THEN b2
                   ELSE IF s.i % 2 = 0 THEN (b2 \div 16) % 16 ELSE b2 % 16
             s1 == put(s, y, im, v)
         IN  IF s1.st # "run" THEN s1 ELSE [s1 EXCEPT !.i = (s.i + 1) % 256]

\* n passes of a run loop, a pass of a loop that has ended changing nothing
RECURSIVE absLoop(_, _, _, _, _, _, _)
absLoop(s, n, b2, bpp, b, y, im) ==
    IF n = 0 \/ s.st # "run" THEN s
    ELSE IF n = 1 THEN absBody(s, b2, bpp, b, y, im)
    ELSE absLoop(absLoop(s, n \div 2, b2, bpp, b, y, im), n - (n \div 2), b2, bpp, b, y, im)

RECURSIVE encLoop(_, _, _, _, _, _, _)
encLoop(s, n, b1, b2, bpp, y, im) ==
    IF n = 0 \/ s.st # "run" THEN s
    ELSE IF n = 1 THEN encBody(s, b1, b2, bpp, y, im)
    ELSE encLoop(encLoop(s, n \div 2, b1, b2, bpp, y, im), n - (n \div 2), b1, b2, bpp, y, im)

run0(x, pix) == [st |-> "run", i |-> 0, j |-> 0, x |-> x, pix |-> pix, wrote |-> 0, bad |-> FALSE]

\* the bytes the absolute mode reads for a run of b2 pixels
absBytes(b2, bpp) ==
    LET n == (b2 * bpp + 8 - 1) \div 8
    IN  IF (bpp = 8 /\ b2 % 2 # 0) \/ (bpp = 4 /\ (b2 % 4 = 1 \/ b2 % 4 = 2))
        THEN n + 1 ELSE n

noOp == [kind |-> "none", n |-> 0, x0 |-> 0, y0 |-> 0, wrote |-> 0, from |-> 0, bad |-> FALSE]

\* a return of one pass of decodeRLE's Loop: e is "nil" to go on
rret(e, p, im, c, fin, o, n) ==
    [err |-> e, pos |-> p, img |-> im, cur |-> c, fin |-> fin, op |-> o, reads |-> n]

\* one pass of "Loop: for { b1, b2, err := read() ... }": one opcode
rleStep(r, p, dd, im, c) ==
    LET rd == ReadFull(r, p, 2)
        o0 == [noOp EXCEPT !.x0 = c.x, !.y0 = c.y, !.from = p]
    IN  IF rd.err # "nil" THEN rret(rd.err, rd.pos, noImage, c, FALSE, o0, 1)
        ELSE
        LET b1 == rd.data[1]
            b2 == rd.data[2]
            bb == bufRead(c.b, rd.data)
        IN  IF b1 = 0 /\ b2 = 0
            THEN LET c1 == [x |-> 0, y |-> c.y - 1, b |-> bb]
                     o  == [o0 EXCEPT !.kind = "EOL"]
                 IN  IF ~isValid(c1.x, c1.y, im.Stride, dd.c.Height)
                     THEN rret("FormatError", rd.pos, noImage, c1, FALSE, o, 1)
                     ELSE rret("nil", rd.pos, im, c1, FALSE, o, 1)
            ELSE IF b1 = 0 /\ b2 = 1
            THEN rret("nil", rd.pos, im, [c EXCEPT !.b = bb], TRUE,
                      [o0 EXCEPT !.kind = "EOF"], 1)
            ELSE IF b1 = 0 /\ b2 = 2
            THEN LET rd2 == ReadFull(r, rd.pos, 2)
                     o   == [o0 EXCEPT !.kind = "Delta"]
                 IN  IF rd2.err # "nil"
                     THEN rret(rd2.err, rd2.pos, noImage, [c EXCEPT !.b = bb], FALSE, o, 2)
                     ELSE LET c1 == [x |-> c.x + rd2.data[1], y |-> c.y - rd2.data[2],
                                     b |-> bufRead(bb, rd2.data)]
                          IN  IF ~isValid(c1.x, c1.y, im.Stride, dd.c.Height)
                              THEN rret("FormatError", rd2.pos, noImage, c1, FALSE, o, 2)
                              ELSE rret("nil", rd2.pos, im, c1, FALSE, o, 2)
            ELSE IF b1 = 0
            THEN LET rd2 == ReadFull(r, rd.pos, absBytes(b2, dd.bpp))
                     o   == [o0 EXCEPT !.kind = "Absolute", !.n = b2]
                 IN  IF rd2.err # "nil"
                     THEN rret(rd2.err, rd2.pos, noImage, [c EXCEPT !.b = bb], FALSE, o, 2)
                     ELSE LET b3 == bufRead(bb, rd2.data)
                              s  == absLoop(run0(c.x, im.Pix), 2 * RunBufLen + 2, b2, dd.bpp,
                                            b3, c.y, im)
                              c1 == [x |-> s.x, y |-> c.y, b |-> b3]
                              o1 == [o EXCEPT !.wrote = s.wrote, !.bad = s.bad]
                          IN  IF s.st # "exit"
                              THEN rret(s.st, rd2.pos, noImage, c1, FALSE, o1, 2)
                              ELSE rret("nil", rd2.pos, [im EXCEPT !.Pix = s.pix], c1,
                                        FALSE, o1, 2)
            ELSE LET s  == encLoop(run0(c.x, im.Pix), RunBufLen, b1, b2, dd.bpp, c.y, im)
                     c1 == [x |-> s.x, y |-> c.y, b |-> bb]
                     o1 == [o0 EXCEPT !.kind = "Encoded", !.n = b1, !.wrote = s.wrote,
                                      !.bad = s.bad]
                 IN  IF s.st # "exit"
                     THEN rret(s.st, rd.pos, noImage, c1, FALSE, o1, 1)
                     ELSE rret("nil", rd.pos, [im EXCEPT !.Pix = s.pix], c1, FALSE, o1, 1)

----------------------------------------------------------------------------
\* The calls

cur0 == [x |-> 0, y |-> 0, b |-> <<>>]

io0 == [encErr |-> "nil", h |-> header0(0, 0), palLen |-> 0, rowWrites |-> 0,
        cfgErr |-> "nil", cfgPos |-> 0, reads |-> 0]

\* Encode(w, m): file is what w received
EncodeCall ==
    /\ pc = "encode"
    /\ LET e == Encode(m)
       IN  /\ file' = e.out
           /\ err' = e.err
           /\ io' = [io EXCEPT !.encErr = e.err, !.h = e.h, !.palLen = Len(e.palette),
                               !.rowWrites = e.rowWrites]
           /\ pc' = IF e.err = "nil" THEN "config" ELSE "done"
    /\ UNCHANGED <<m, pos, d, img, cur, op>>

\* d.DecodeConfig(), the whole of the exported DecodeConfig and the first half
\* of the exported Decode
DecodeConfigCall ==
    /\ pc = "config"
    /\ LET c == DecodeConfig(file)
       IN  /\ d' = c.d
           /\ pos' = c.pos
           /\ err' = c.err
           /\ io' = [io EXCEPT !.cfgErr = c.err, !.cfgPos = c.pos]
           /\ pc' = IF c.err = "nil" THEN "decode" ELSE "done"
    /\ UNCHANGED <<m, file, img, cur, op>>

\* d.Decode(): the row decoder of the depth, or the start of decodeRLE
decodeBody(r, p, dd) ==
    CASE dd.bpp \in {1, 2, 4} -> decodeSmallPaletted(r, p, dd)
      [] dd.bpp = 8 -> decodePaletted(r, p, dd)
      [] dd.bpp = 16 -> decodeRGB5x5(r, p, dd)
      [] dd.bpp = 24 -> decodeRGB(r, p, dd)
      [] dd.bpp = 32 -> decodeNRGBA(r, p, dd)
      [] OTHER -> dret("panic", p, noImage, 0)

DecodeCall ==
    /\ pc = "decode"
    /\ IF d.rle
       THEN LET paletted == newImage("Paletted", d.c.Width, d.c.Height, 1, d.c.ColorModel)
            IN  /\ img' = paletted
                /\ IF d.c.Width = 0 \/ d.c.Height = 0
                   THEN pc' = "done" /\ cur' = cur
                   ELSE pc' = "rle" /\ cur' = [cur0 EXCEPT !.y = d.c.Height - 1]
                /\ UNCHANGED <<pos, err, io>>
       ELSE LET res == decodeBody(file, pos, d)
            IN  /\ img' = res.img
                /\ pos' = res.pos
                /\ err' = res.err
                /\ io' = [io EXCEPT !.reads = res.reads]
                /\ pc' = "done"
                /\ cur' = cur
    /\ UNCHANGED <<m, file, d, op>>

\* one pass of decodeRLE's loop
RLEOpcode ==
    /\ pc = "rle"
    /\ LET res == rleStep(file, pos, d, img, cur)
       IN  /\ img' = res.img
           /\ pos' = res.pos
           /\ err' = res.err
           /\ cur' = res.cur
           /\ op' = res.op
           /\ io' = [io EXCEPT !.reads = io.reads + res.reads]
           /\ pc' = IF res.err # "nil" \/ res.fin THEN "done" ELSE "rle"
    /\ UNCHANGED <<m, file, d>>

----------------------------------------------------------------------------
\* The images handed to Encode

MaxW == 9
MaxH == 2
MaxSlack == 1
MaxSeed == 2

PaletteLens == {1, 2, 3, 4, 5, 16, 17, 256}

\* an opaque palette of n distinct colours
testPalette(n) ==
    [i \in 1..n |-> <<(7 * (i - 1) + 1) % 256, 255 - (i - 1), ((i - 1) * (i - 1) + 3) % 256, 255>>]

palettedImage(n, dx, dy, slack, seed) ==
    [kind |-> "Paletted", dx |-> dx, dy |-> dy, Stride |-> dx + slack,
     Palette |-> testPalette(n),
     Pix |-> [k \in 1..((dx + slack) * dy) |->
                 LET x == (k - 1) % (dx + slack)
                     y == (k - 1) \div (dx + slack)
                 IN  IF x >= dx THEN 0
                     ELSE (seed + 3 * x + 5 * y + seed * x * y) % n]]

\* alpha-premultiplied colours (no channel above its alpha), opaque ones first
PremulColours ==
    << <<1, 2, 3, 255>>, <<255, 0, 128, 255>>, <<1, 0, 2, 2>>, <<0, 0, 0, 0>>,
       <<10, 20, 30, 128>>, <<200, 100, 0, 200>> >>

\* straight-alpha colours, opaque ones first
StraightColours ==
    << <<1, 2, 3, 255>>, <<255, 0, 128, 255>>, <<200, 100, 50, 3>>, <<9, 8, 7, 0>>,
       <<10, 20, 30, 128>>, <<0, 0, 0, 0>> >>

\* seed 0 and 1 give opaque images, the others use every colour
trueImage(kind, dx, dy, slack, seed) ==
    LET cols == IF kind = "RGBA" THEN PremulColours ELSE StraightColours
        stride == 4 * (dx + slack)
    IN  [kind |-> kind, dx |-> dx, dy |-> dy, Stride |-> stride, Palette |-> <<>>,
         Pix |-> [k \in 1..(stride * dy) |->
                     LET x == ((k - 1) % stride) \div 4
                         y == (k - 1) \div stride
                         n == IF seed < 2 THEN (seed * (x + y)) % 2
                              ELSE (seed + x + 3 * y) % Len(cols)
                     IN  IF x >= dx THEN 0 ELSE cols[n + 1][((k - 1) % 4) + 1]]]

grayImage(dx, dy, slack, seed) ==
    [kind |-> "Gray", dx |-> dx, dy |-> dy, Stride |-> dx + slack, Palette |-> <<>>,
     Pix |-> [k \in 1..((dx + slack) * dy) |-> (seed * 101 + 37 * k) % 256]]

\* an image of another type: its At(x, y).RGBA() values, 16 bits a channel
otherImage(dx, dy, seed) ==
    [kind |-> "Other", dx |-> dx, dy |-> dy, Stride |-> 4 * dx, Palette |-> <<>>,
     Pix |-> [k \in 1..(4 * dx * dy) |->
                 IF (k - 1) % 4 = 3 THEN 65535 ELSE (seed * 10007 + 4099 * k) % 65536]]

SourceImages ==
    {palettedImage(n, dx, dy, slack, seed) :
        n \in PaletteLens, dx \in 0..MaxW, dy \in 0..MaxH, slack \in 0..MaxSlack,
        seed \in 0..MaxSeed}
    \cup {trueImage(kind, dx, dy, slack, seed) :
        kind \in {"RGBA", "NRGBA"}, dx \in 0..MaxW, dy \in 0..MaxH, slack \in 0..MaxSlack,
        seed \in 0..(MaxSeed + 1)}
    \cup {grayImage(dx, dy, slack, seed) :
        dx \in 0..MaxW, dy \in 0..MaxH, slack \in 0..MaxSlack, seed \in 0..MaxSeed}
    \cup {otherImage(dx, dy, seed) : dx \in 0..MaxW, dy \in 0..MaxH, seed \in 0..MaxSeed}

InitEncode ==
    /\ m \in SourceImages
    /\ file = <<>>
    /\ pos = 0
    /\ pc = "encode"
    /\ err = "nil"
    /\ d = decoder0
    /\ img = noImage
    /\ cur = cur0
    /\ op = noOp
    /\ io = io0

NextCodec == EncodeCall \/ DecodeConfigCall \/ DecodeCall

\* Encode, then Decode of what it wrote
SpecCodec == InitEncode /\ [][NextCodec]_vars

----------------------------------------------------------------------------
\* The files handed to the decoder

\* the uint32 of an int32
I32(n) == <<(n \div 65536) % 65536, n % 65536>>

\* n bytes of pixel data
testBytes(n, seed) == [k \in 1..n |-> (37 * k + 101 * seed + 5) % 256]

\* the channel masks of the BitFields layouts the decoder knows, and others
Masks565 == <<U32(63488), U32(2016), U32(31), U32(0)>>
Masks555 == <<U32(31744), U32(992), U32(31), U32(0)>>
Masks888 == << <<255, 0>>, <<0, 65280>>, <<0, 255>>, U32(0) >>
Masks8888 == << <<255, 0>>, <<0, 65280>>, <<0, 255>>, <<65280, 0>> >>
MasksOther == << <<0, 255>>, <<0, 65280>>, <<255, 0>>, <<65280, 0>> >>
NoMasks == <<U32(0), U32(0), U32(0), U32(0)>>

\* a file: the file header and the DIB header of hp, the mask table when the
\* format has one, then the bytes of rest (the palette and the pixel data)
bmpFile(hp, rest) ==
    LET h == [header0(0, 0) EXCEPT
                 !.pixOffset = hp.offset, !.dibHeaderSize = U32(hp.infoLen),
                 !.width = I32(hp.width), !.height = I32(hp.height),
                 !.colorPlane = hp.planes, !.bpp = hp.bpp,
                 !.compression = U32(hp.compression), !.colorUse = hp.colors]
        masks == U32Bytes(hp.masks[1]) \o U32Bytes(hp.masks[2]) \o U32Bytes(hp.masks[3])
        ext == IF hp.infoLen > infoHeaderLen
               THEN masks \o U32Bytes(hp.masks[4]) \o Zeros(hp.infoLen - infoHeaderLen - 16)
               ELSE IF hp.compression = biBitFields THEN masks ELSE <<>>
    IN  SetPrefix(headerBytes(h), hp.sig) \o ext \o rest

\* a well-formed header: the offset is where the pixel data starts
goodHeader(infoLen, width, height, bpp, compression, colors, masks) ==
    LET n    == IF bpp > 8 THEN 0 ELSE IF colors = 0 THEN Pow2(bpp) ELSE colors
        mlen == IF compression = biBitFields /\ infoLen = infoHeaderLen THEN 12 ELSE 0
    IN  [sig |-> <<66, 77>>, infoLen |-> infoLen, width |-> width, height |-> height,
         planes |-> 1, bpp |-> bpp, compression |-> compression, colors |-> U32(colors),
         masks |-> masks, offset |-> U32(fileHeaderLen + infoLen + mlen + 4 * n)]

InfoLens == {infoHeaderLen, v4InfoHeaderLen, v5InfoHeaderLen}

\* declared colour counts: none, small, the most a depth can index, one more,
\* and two whose product by 4 does not fit 32 bits
ColorCounts == {U32(0), U32(1), U32(2), U32(3), U32(16), U32(17), U32(256), U32(257),
                <<16384, 0>>, <<16384, 1>>}

MaxDim == 2
MaxFileSeed == 1

Dims == {<<w, h>> : w \in 0..MaxDim, h \in (0 - MaxDim)..MaxDim}

\* indexed files: every header length, depth and colour count, with the offset
\* that the count asks for (computed in 32 bits), and offsets that differ
IndexedFiles ==
    {bmpFile([goodHeader(il, wh[1], wh[2], bpp, biRGB, 0, NoMasks) EXCEPT
                 !.colors = cc,
                 !.offset = U32Add(U32(fileHeaderLen + il + delta),
                                   U32Mul4(IF cc = U32(0) THEN U32(Pow2(bpp)) ELSE cc))],
             testBytes(IF cc[1] > 0 \/ cc[2] > 257 THEN 16 + cc[2] * 4
                       ELSE 16 + 4 * (IF cc = U32(0) THEN Pow2(bpp) ELSE cc[2]), seed)) :
        il \in InfoLens, bpp \in {1, 2, 4, 8}, cc \in ColorCounts, delta \in {0, 4, 1024},
        wh \in {<<0, 0>>, <<1, 1>>, <<MaxDim, 0 - MaxDim>>}, seed \in {0}}

\* truecolour files: every header length and depth, with and without
\* BitFields, each mask table; the offset right, or off by a mask table
TrueFiles ==
    {bmpFile([goodHeader(il, wh[1], wh[2], bpp, comp, 0, mk) EXCEPT
                 !.offset = U32(fileHeaderLen + il + delta)],
             testBytes(4 * MaxDim * MaxDim + 8, seed)) :
        il \in InfoLens, bpp \in {16, 24, 32}, comp \in {biRGB, biBitFields},
        mk \in {Masks565, Masks555, Masks888, Masks8888, MasksOther},
        delta \in {0, 4, 12}, wh \in Dims, seed \in 0..MaxFileSeed}

\* RLE opcodes as the format lays them out: an absolute run of n pixels holds
\* n pixels packed at the depth, padded to an even number of bytes
opEOL == <<0, 0>>
opEOF == <<0, 1>>
opDelta(dx, dy) == <<0, 2, dx, dy>>
opAbsolute(n, bpp, seed) ==
    LET k == (n * bpp + 7) \div 8
    IN  <<0, n>> \o testBytes(k + (k % 2), seed)
opEncoded(n, v) == <<n, v>>

rleCompression(bpp) == IF bpp = 4 THEN biRLE4 ELSE biRLE8

\* an RLE file of a two-colour palette and the given opcode stream
rleFile(bpp, w, h, stream) ==
    bmpFile(goodHeader(infoHeaderLen, w, h, bpp, rleCompression(bpp), 2, NoMasks),
            testBytes(8, 0) \o stream)

MaxOps == 2
MaxSmallRun == 5

SmallOps(bpp) ==
    {opEOL, opDelta(0, 0), opDelta(1, 0), opDelta(0, 1), opDelta(2, 1)}
    \cup {opAbsolute(n, bpp, 1) : n \in 3..MaxSmallRun}
    \cup {opEncoded(n, 18) : n \in 1..(MaxSmallRun - 1)}

RECURSIVE Streams(_, _)
Streams(ops, k) ==
    IF k = 0 THEN {<<>>}
    ELSE Streams(ops, k - 1) \cup {o \o t : o \in ops, t \in Streams(ops, k - 1)}

\* every stream of up to MaxOps short opcodes and the end-of-file marker, on
\* small images
SmallRLEFiles ==
    {rleFile(bpp, wh[1], wh[2], t \o opEOF) :
        bpp \in {4}, wh \in {<<1, 1>>, <<3, 2>>, <<4, 2>>, <<0, 1>>, <<2, 0>>},
        t \in Streams(SmallOps(4), MaxOps)}
    \cup {rleFile(bpp, wh[1], wh[2], t \o opEOF) :
        bpp \in {8}, wh \in {<<1, 1>>, <<3, 2>>, <<4, 2>>, <<0, 1>>, <<2, 0>>},
        t \in Streams(SmallOps(8), MaxOps)}

\* one run of every length a byte can hold, in a row it fills or that is
\* longer, from the row's start or after a Delta
LongRLEFiles ==
    {rleFile(bpp, 255, 1, opAbsolute(n, bpp, 2) \o opEOF) : bpp \in {4, 8}, n \in 3..255}
    \cup {rleFile(bpp, w, 1, pre \o opAbsolute(n, bpp, 3) \o opEOF) :
        bpp \in {4, 8}, w \in {256, 509, 510, 511}, n \in {254, 255},
        pre \in {<<>>, opDelta(1, 0)}}
    \cup {rleFile(bpp, w, 2, opEncoded(n, 33) \o opEOL \o opEncoded(1, 2) \o opEOF) :
        bpp \in {4, 8}, w \in {254, 255, 256}, n \in {254, 255}}

RLEFiles == SmallRLEFiles \cup LongRLEFiles

\* well-formed files of each kind the decoder reads
WholeFiles ==
    {bmpFile(goodHeader(infoHeaderLen, 3, 2, 1, biRGB, 0, NoMasks), testBytes(8 + 8, 0)),
     bmpFile(goodHeader(infoHeaderLen, 3, 2, 8, biRGB, 3, NoMasks), testBytes(12 + 8, 1)),
     bmpFile(goodHeader(infoHeaderLen, 2, 2, 24, biRGB, 0, NoMasks), testBytes(16, 2)),
     bmpFile(goodHeader(infoHeaderLen, 1, 2, 32, biBitFields, 0, Masks888), testBytes(8, 3)),
     bmpFile(goodHeader(v4InfoHeaderLen, 1, 0 - 2, 16, biBitFields, 0, Masks565),
             testBytes(8, 4)),
     rleFile(8, 3, 2, opEncoded(2, 1) \o opDelta(0, 0) \o opAbsolute(1, 8, 0) \o opEOL
                       \o opAbsolute(3, 8, 5) \o opEOF),
     rleFile(4, 3, 2, opEncoded(3, 18) \o opEOL \o opDelta(0, 0) \o opAbsolute(3, 4, 6)
                       \o opEOF)}

\* each of them cut at every length
TruncatedFiles == UNION {{SubSeq(f, 1, n) : n \in 0..Len(f)} : f \in WholeFiles}

\* headers the decoder refuses
good0 == goodHeader(infoHeaderLen, 2, 2, 24, biRGB, 0, NoMasks)

RefusedFiles ==
    {bmpFile(hp, testBytes(32, 0)) : hp \in
        {[good0 EXCEPT !.sig = <<66, 66>>],
         [good0 EXCEPT !.infoLen = 44],
         [good0 EXCEPT !.planes = 0],
         [good0 EXCEPT !.planes = 2],
         [good0 EXCEPT !.width = 0 - 1],
         [good0 EXCEPT !.bpp = 0],
         [good0 EXCEPT !.bpp = 3],
         [good0 EXCEPT !.bpp = 64],
         [good0 EXCEPT !.compression = 4],
         [good0 EXCEPT !.compression = biBitFields, !.masks = Masks888],
         [good0 EXCEPT !.compression = biRLE8],
         goodHeader(infoHeaderLen, 2, 0 - 2, 8, biRLE8, 2, NoMasks),
         goodHeader(infoHeaderLen, 2, 2, 8, biRLE4, 2, NoMasks),
         goodHeader(infoHeaderLen, 2, 2, 4, biRLE8, 2, NoMasks),
         goodHeader(infoHeaderLen, 2, 2, 4, biBitFields, 2, Masks888)}}

InitFile(files) ==
    /\ m = noImage
    /\ file \in files
    /\ pos = 0
    /\ pc = "config"
    /\ err = "nil"
    /\ d = decoder0
    /\ img = noImage
    /\ cur = cur0
    /\ op = noOp
    /\ io = io0

NextDecode == DecodeConfigCall \/ DecodeCall \/ RLEOpcode

\* DecodeConfig and Decode of headers of every shape, whole and cut short
SpecHeader ==
    InitFile(IndexedFiles \cup TrueFiles \cup TruncatedFiles \cup RefusedFiles)
    /\ [][NextDecode]_vars

\* Decode of RLE files
SpecRLE == InitFile(RLEFiles) /\ [][NextDecode]_vars

Init ==
    \/ InitEncode
    \/ InitFile(IndexedFiles \cup TrueFiles \cup TruncatedFiles \cup RefusedFiles
                \cup RLEFiles)

Next == EncodeCall \/ DecodeConfigCall \/ DecodeCall \/ RLEOpcode

Spec == Init /\ [][Next]_vars

----------------------------------------------------------------------------
\* Claims

\* the pixel of image im at (x, y): channel c of k
Px(im, k, x, y, c) == At(im.Pix, y * im.Stride + k * x + c)

\* an indexed buffer with 1 to 256 opaque colours and every index in range
validPaletted(mm) ==
    /\ mm.kind = "Paletted"
    /\ Len(mm.Palette) \in 1..256
    /\ \A i \in 1..Len(mm.Palette) : mm.Palette[i][4] = 255
    /\ \A y \in 0..(mm.dy - 1) : \A x \in 0..(mm.dx - 1) :
           Px(mm, 1, x, y, 0) < Len(mm.Palette)

\* C1: Decode of what Encode wrote for a valid indexed buffer succeeds and
\* returns the same width and height, the same palette entry for entry and the
\* same index at every pixel, at each depth Encode selects.
C1_PalettedRoundTrip ==
    (pc = "done" /\ validPaletted(m)) =>
        /\ io.encErr = "nil" /\ err = "nil"
        /\ io.h.bpp \in {1, 2, 4, 8}
        /\ img.kind = "Paletted" /\ img.dx = m.dx /\ img.dy = m.dy
        /\ Len(img.Palette) = Len(m.Palette)
        /\ \A i \in 1..Len(m.Palette) : img.Palette[i] = m.Palette[i]
        /\ \A y \in 0..(m.dy - 1) : \A x \in 0..(m.dx - 1) :
               Px(img, 1, x, y, 0) = Px(m, 1, x, y, 0)

\* a 1-bpp round trip of two rows of 9 pixels: a row spills into a second byte
\* and the width is a multiple neither of 8 nor of 4
C1_Witness ==
    /\ pc = "done" /\ validPaletted(m) /\ err = "nil"
    /\ io.h.bpp = 1 /\ m.dx = 9 /\ m.dy = 2
    /\ Px(img, 1, 8, 1, 0) = 1 /\ Px(img, 1, 8, 0, 0) = 0

trueColour(mm) == mm.kind \in {"RGBA", "NRGBA"}

samePixel(a, b, x, y) == \A c \in 0..3 : Px(a, 4, x, y, c) = Px(b, 4, x, y, c)

\* C2 as stated: Decode of what Encode wrote for a truecolour buffer, at 24 or
\* at 32 bpp, returns the same size and every pixel's red, green, blue and
\* alpha equal to the source pixel's.
C2_TruecolorRoundTrip ==
    (pc = "done" /\ trueColour(m)) =>
        /\ err = "nil" /\ img.dx = m.dx /\ img.dy = m.dy
        /\ \A y \in 0..(m.dy - 1) : \A x \in 0..(m.dx - 1) : samePixel(img, m, x, y)

\* C2 amended: as stated, except that a pixel of an alpha-premultiplied source
\* written at 32 bpp comes back in straight alpha: (0,0,0,0) when its alpha is
\* 0, and otherwise each colour channel c as ((c * 0xffff) / a) >> 8 (c itself
\* when a is 0xff) with alpha a.
C2_TruecolorRoundTripAmended ==
    (pc = "done" /\ trueColour(m)) =>
        /\ io.encErr = "nil" /\ err = "nil"
        /\ io.h.bpp = (IF Opaque(m) THEN 24 ELSE 32)
        /\ img.dx = m.dx /\ img.dy = m.dy
        /\ \A y \in 0..(m.dy - 1) : \A x \in 0..(m.dx - 1) :
               LET a == Px(m, 4, x, y, 3)
               IN  IF m.kind = "RGBA" /\ io.h.bpp = 32 /\ a < 255
                   THEN /\ Px(img, 4, x, y, 3) = a
                        /\ \A c \in 0..2 :
                               Px(img, 4, x, y, c) =
                                   IF a = 0 THEN 0
                                   ELSE ((Px(m, 4, x, y, c) * 65535) \div a) \div 256
                   ELSE samePixel(img, m, x, y)

\* a premultiplied image written at 32 bpp and read back, with a pixel of
\* alpha 128 that came back in straight alpha and an opaque one that came
\* back as it was
C2_Witness ==
    /\ pc = "done" /\ m.kind = "RGBA" /\ err = "nil" /\ io.h.bpp = 32
    /\ \E y \in 0..(m.dy - 1) : \E x \in 0..(m.dx - 1) :
           /\ <<Px(m, 4, x, y, 0), Px(m, 4, x, y, 3)>> = <<10, 128>>
           /\ Px(img, 4, x, y, 0) = 19 /\ Px(img, 4, x, y, 3) = 128
    /\ \E y \in 0..(m.dy - 1) : \E x \in 0..(m.dx - 1) :
           Px(m, 4, x, y, 3) = 255 /\ samePixel(img, m, x, y)

\* the last pass of decodeRLE's loop handled an opcode that moves the cursor
\* or writes, and decodeRLE went on
opDone == op.kind \in {"EOL", "Delta", "Absolute", "Encoded"} /\ err = "nil"

\* the last pass of decodeRLE's loop had its bytes: it did not end at the end
\* of the stream
opRead == op.kind # "none" /\ err \notin {"EOF", "ErrUnexpectedEOF"}

\* C3: every write of the RLE decompressor targets a cell inside the image; a
\* cursor or a write that would leave it ends the decode with FormatError, and
\* no buffer is indexed outside its bounds (which stops the program: "panic").
C3_RLEMemorySafety ==
    opRead => (~op.bad /\ err \in {"nil", "FormatError"})

\* C7 as stated: after every opcode handled without error the cursor is inside
\* the image, 0 <= x < width and 0 <= y < height.
C7_CursorInside ==
    opDone => (cur.x >= 0 /\ cur.x < d.c.Width /\ cur.y >= 0 /\ cur.y < d.c.Height)

\* C7 amended: after every opcode handled without error 0 <= x <= width and
\* 0 <= y < height; x = width only after an absolute or encoded run that wrote
\* the last column of its row, and x < width after an end-of-line or a Delta.
C7_CursorInsideOrRowEnd ==
    opDone =>
        /\ cur.x >= 0 /\ cur.x <= d.c.Width /\ cur.y >= 0 /\ cur.y < d.c.Height
        /\ cur.x = d.c.Width =>
               (op.kind \in {"Absolute", "Encoded"} /\ op.wrote >= 1)
        /\ op.kind \in {"EOL", "Delta"} => cur.x < d.c.Width

\* an encoded run has written a row up to its last column
C7_Witness ==
    /\ opDone /\ op.kind = "Encoded" /\ op.x0 = 0 /\ op.wrote = d.c.Width
    /\ cur.x = d.c.Width /\ d.c.Width = 255

\* the bytes an absolute run of n pixels takes in the stream: n at 8 bpp and
\* ceil(n/2) at 4 bpp, and a pad byte when that count is odd
runBytes(n, bpp) ==
    LET k == IF bpp = 8 THEN n ELSE (n + 1) \div 2
    IN  IF k % 2 = 1 THEN k + 1 ELSE k

\* C8: an absolute run (0, n), n in 3..255, that fits in the row writes n
\* pixels, moves the cursor n columns, takes runBytes(n) bytes after the
\* opcode pair, and the decoder goes on with the next opcode.
C8_AbsoluteRunLength ==
    (opRead /\ op.kind = "Absolute" /\ op.n \in 3..255 /\ op.x0 + op.n <= d.c.Width) =>
        /\ err = "nil" /\ pc = "rle"
        /\ op.wrote = op.n
        /\ cur.x = op.x0 + op.n /\ cur.y = op.y0
        /\ pos - op.from = 2 + runBytes(op.n, d.bpp)

\* DecodeConfig has returned (Decode may have run after it)
configDone == pc \in {"decode", "rle", "done"}

\* the fields of the header at the start of file
hInfoLen == readUint32(file, 14)
hOffset == readUint32(file, 10)
hBpp == readUint16(file, 28)
hCompression == readUint32(file, 30)
hColors == readUint32(file, 46)

\* 14 + DIB header length + 4 x colour count (0 meaning 2^bpp) at an indexed
\* depth, 14 + DIB header length + mask table length otherwise, as a pair
\* <<hi, lo>> whose hi may pass 16 bits: the sum is not reduced modulo 2^32
hExpectedOffset ==
    LET base == fileHeaderLen + U32Int(hInfoLen)
    IN  IF hBpp \in {1, 2, 4, 8}
        THEN LET lo == base + 4 * (IF hColors = U32(0) THEN Pow2(hBpp) ELSE hColors[2])
             IN  <<4 * hColors[1] + (lo \div 65536), lo % 65536>>
        ELSE U32(base + (IF hCompression = U32(biBitFields) /\ hInfoLen = U32(infoHeaderLen)
                         THEN 12 ELSE 0))

\* C4: DecodeConfig succeeds only if the declared offset is the expected one,
\* and has then consumed exactly that many bytes; a header it has read whole
\* whose offset is any other value gets the unsupported-feature error.
C4_OffsetLoadBearing ==
    configDone =>
        /\ io.cfgErr = "nil" =>
               (hOffset = hExpectedOffset /\ io.cfgPos = U32Int(hOffset))
        /\ (io.cfgErr \notin {"ErrUnexpectedEOF", "EOF", "FormatError"}
            /\ hOffset # hExpectedOffset) => io.cfgErr = "UnsupportedError"

\* C5: a zero-area image causes no row I/O.  Decode makes no read after the
\* header and the palette and returns an empty buffer without error; Encode
\* writes the 54-byte header and the palette (4 bytes a colour of an indexed
\* source, the 256 greys of a greyscale one, none otherwise) with no row write.
C5_ZeroAreaNoRowIO ==
    /\ (pc = "done" /\ io.cfgErr = "nil" /\ (d.c.Width = 0 \/ d.c.Height = 0)) =>
           /\ err = "nil" /\ io.reads = 0 /\ pos = io.cfgPos /\ op.kind = "none"
           /\ img.kind # "None" /\ img.dx = d.c.Width /\ img.dy = d.c.Height
           /\ img.Pix = <<>>
    /\ (pc # "encode" /\ m.kind # "None" /\ (m.dx = 0 \/ m.dy = 0)) =>
           /\ io.encErr = "nil" /\ io.rowWrites = 0
           /\ Len(file) = 54 + io.palLen
           /\ io.palLen = (CASE m.kind = "Paletted" -> 4 * Len(m.Palette)
                             [] m.kind = "Gray" -> 1024
                             [] OTHER -> 0)

\* an indexed image of width 0 and height 2 was encoded as header and palette
\* alone, and decoded from them without a read
C5_Witness ==
    /\ pc = "done" /\ m.kind = "Paletted" /\ m.dx = 0 /\ m.dy = 2
    /\ Len(file) = 54 + 4 * 17 /\ io.rowWrites = 0
    /\ err = "nil" /\ io.reads = 0 /\ img.dy = 2 /\ img.Pix = <<>>

\* the byte of file that holds channel c (0 blue .. 3 alpha) of the pixel
\* that a 32-bpp Decode stores at (x, y)
stored32(x, y, c) ==
    LET k == IF d.topDown THEN y ELSE d.c.Height - 1 - y
    IN  At(file, io.cfgPos + k * 4 * d.c.Width + 4 * x + c)

\* C6: a 32-bpp image under the 40-byte header with BitFields and the masks
\* 0x00FF0000, 0x0000FF00, 0x000000FF decodes with every alpha 0xFF; a 32-bpp
\* image accepted any other way decodes with the stored fourth byte as alpha.
C6_ForcedOpaqueAlpha ==
    (pc = "done" /\ m.kind = "None" /\ err = "nil" /\ d.bpp = 32) =>
        \A y \in 0..(d.c.Height - 1) : \A x \in 0..(d.c.Width - 1) :
            Px(img, 4, x, y, 3) =
                IF hInfoLen = U32(infoHeaderLen) /\ hCompression = U32(biBitFields)
                THEN 255 ELSE stored32(x, y, 3)

\* a BitFields image under the 40-byte header whose stored fourth byte is not
\* 0xFF was decoded
C6_Witness ==
    /\ pc = "done" /\ m.kind = "None" /\ err = "nil" /\ d.bpp = 32
    /\ hInfoLen = U32(infoHeaderLen) /\ hCompression = U32(biBitFields)
    /\ readUint32(file, 54) = <<255, 0>> /\ readUint32(file, 58) = <<0, 65280>>
    /\ readUint32(file, 62) = <<0, 255>>
    /\ d.c.Width = 2 /\ d.c.Height = 2
    /\ stored32(1, 0, 3) \notin {0, 255} /\ Px(img, 4, 1, 0, 3) = 255
    /\ Px(img, 4, 1, 0, 0) = stored32(1, 0, 2)

\* C9: a stream that ends where Decode or DecodeConfig needs bytes gives the
\* unexpected-end-of-input error, never the plain end-of-stream signal.
C9_EndOfInputNormalised ==
    (pc = "done" /\ err \in {"EOF", "ErrUnexpectedEOF"}) => err = "ErrUnexpectedEOF"

\* C10: the palette of an accepted indexed header has the declared number of
\* entries (2^bpp when 0 is declared), at most 2^bpp, read from at most 1024
\* bytes, entry i being the i-th group of 4 bytes taken as blue, green, red.
C10_PaletteBound ==
    (configDone /\ io.cfgErr = "nil" /\ d.bpp \in {1, 2, 4, 8}) =>
        LET pal == d.c.ColorModel
            at  == fileHeaderLen + U32Int(hInfoLen)
        IN  /\ Len(pal) <= Pow2(d.bpp)
            /\ Len(pal) = (IF hColors = U32(0) THEN Pow2(d.bpp) ELSE hColors[2])
            /\ hColors[1] = 0
            /\ 4 * Len(pal) <= HeaderBufLen
            /\ \A i \in 1..Len(pal) :
                   pal[i] = <<At(file, at + 4 * (i - 1) + 2), At(file, at + 4 * (i - 1) + 1),
                              At(file, at + 4 * (i - 1)), 255>>

\* an uncompressed Decode has returned an image
rowsDecoded == pc = "done" /\ io.cfgErr = "nil" /\ err = "nil" /\ ~d.rle

\* the header says top-down: its height field is negative
hTopDown == I32Int(readUint32(file, 22)) < 0

\* ceil(bpp x width / 8) rounded up to the next multiple of 4
hRowLen == (((d.bpp * d.c.Width + 7) \div 8 + 3) \div 4) * 4

\* where the k-th row of the stream starts when rows follow one another
hRowAt(k) == io.cfgPos + k * hRowLen

\* the pixel x of the k-th row of the stream is the pixel x of buffer row y:
\* the index at the indexed depths (leftmost pixel in the high bits), blue from
\* the low 5 bits at 16 bpp, blue, green and red at 24 and 32 bpp
sameRow(k, y) ==
    \A x \in 0..(d.c.Width - 1) :
        CASE d.bpp \in {1, 2, 4} ->
                Px(img, 1, x, y, 0) =
                    (At(file, hRowAt(k) + (x * d.bpp) \div 8)
                        \div Pow2(8 - d.bpp - ((x * d.bpp) % 8))) % Pow2(d.bpp)
          [] d.bpp = 8 -> Px(img, 1, x, y, 0) = At(file, hRowAt(k) + x)
          [] d.bpp = 16 ->
                Px(img, 4, x, y, 2) = ((At(file, hRowAt(k) + 2 * x) % 32) * 8) % 256
          [] OTHER ->
                \A c \in 0..2 :
                    Px(img, 4, x, y, c) = At(file, hRowAt(k) + (d.bpp \div 8) * x + 2 - c)

\* C11: at every uncompressed depth the k-th row of the stream is stored at
\* buffer row k when the header height is negative and at row height-1-k
\* otherwise, and the rows follow one another in the stream, each of
\* ceil(bpp x width / 8) bytes rounded up to a multiple of 4, so that Decode
\* ends right after the last row.
C11_DecodeRowOrder ==
    rowsDecoded =>
        /\ d.bpp \in {1, 2, 4, 8, 16, 24, 32}
        /\ d.topDown = hTopDown
        /\ pos = hRowAt(d.c.Height)
        /\ \A k \in 0..(d.c.Height - 1) :
               sameRow(k, IF hTopDown THEN k ELSE d.c.Height - 1 - k)

\* a bottom-up 8-bpp file of two different rows of 3 pixels and a pad byte
\* was decoded: the first row of the stream is the last row of the buffer
C11_Witness ==
    /\ rowsDecoded /\ m.kind = "None" /\ d.bpp = 8 /\ ~hTopDown
    /\ d.c.Width = 3 /\ d.c.Height = 2 /\ pos = io.cfgPos + 8
    /\ Px(img, 1, 0, 1, 0) = At(file, io.cfgPos)
    /\ Px(img, 1, 0, 0, 0) = At(file, io.cfgPos + 4)
    /\ At(file, io.cfgPos) # At(file, io.cfgPos + 4)

\* a top-down 16-bpp file of two rows was decoded: the first row of the stream
\* is the first row of the buffer
C11_WitnessTopDown ==
    /\ rowsDecoded /\ d.bpp = 16 /\ hTopDown /\ d.c.Width = 1 /\ d.c.Height = 2
    /\ pos = io.cfgPos + 8 /\ sameRow(0, 0) /\ ~sameRow(0, 1)

\* Encode has returned for a source of a kind the selection is stated for
\* (an indexed one with a palette Encode takes, a truecolour one, or one of a
\* type Encode does not know)
encoded ==
    /\ pc # "encode"
    /\ \/ m.kind = "Paletted" /\ Len(m.Palette) \in 1..256
       \/ m.kind \in {"RGBA", "NRGBA", "Other"}

\* every pixel in the bounds of a truecolour source has alpha 0xFF
allOpaque == \A y \in 0..(m.dy - 1) : \A x \in 0..(m.dx - 1) : Px(m, 4, x, y, 3) = 255

\* C12: the bits per pixel Encode writes are 1, 2, 4 or 8 for an indexed
\* source of at most 2, 4, 16 or of more colours, 24 for a truecolour source
\* (straight or premultiplied) whose pixels are all opaque and 32 for one with
\* a pixel that is not, and 24 for a source of any other type.
C12_EncodeFormatSelection ==
    encoded =>
        /\ io.encErr = "nil"
        /\ hBpp = io.h.bpp
        /\ hBpp = (CASE m.kind = "Paletted" ->
                          (IF Len(m.Palette) <= 2 THEN 1
                           ELSE IF Len(m.Palette) <= 4 THEN 2
                           ELSE IF Len(m.Palette) <= 16 THEN 4 ELSE 8)
                     [] m.kind \in {"RGBA", "NRGBA"} -> (IF allOpaque THEN 24 ELSE 32)
                     [] OTHER -> 24)

\* a palette of exactly 16 colours was written at 4 bpp
C12_Witness ==
    /\ encoded /\ m.kind = "Paletted" /\ Len(m.Palette) = 16 /\ m.dx > 0 /\ m.dy > 0
    /\ hBpp = 4 /\ io.encErr = "nil"

\* a straight-alpha source with a pixel that is not opaque was written at 32
\* bpp, and a source of an unknown type at 24
C12_WitnessAlpha ==
    /\ encoded /\ m.kind = "NRGBA" /\ ~allOpaque /\ hBpp = 32

\* Encode has written a file
written == pc # "encode" /\ m.kind # "None" /\ io.encErr = "nil"

\* the length of a row of the written depth: the bits of m.dx pixels in whole
\* bytes, rounded up to a multiple of 4
wRowLen == (((hBpp * m.dx + 7) \div 8 + 3) \div 4) * 4

\* C13: the header Encode writes has DIB length 40, planes 1, compression 0,
\* pixel-data offset 54 + the palette bytes written, image size height x row
\* length (a multiple of 4) and file size offset + image size, which is the
\* number of bytes written; DecodeConfig of the output succeeds with the same
\* width and height.
C13_EncoderSelfConsistent ==
    written =>
        /\ Slice(file, 0, 2) = <<66, 77>>
        /\ hInfoLen = U32(40)
        /\ readUint16(file, 26) = 1
        /\ hCompression = U32(0)
        /\ hOffset = U32(54 + io.palLen)
        /\ wRowLen % 4 = 0
        /\ readUint32(file, 34) = U32(m.dy * wRowLen)
        /\ readUint32(file, 2) = U32(54 + io.palLen + m.dy * wRowLen)
        /\ Len(file) = 54 + io.palLen + m.dy * wRowLen
        /\ pc # "config" =>
               /\ io.cfgErr = "nil" /\ io.cfgPos = 54 + io.palLen
               /\ d.c.Width = m.dx /\ d.c.Height = m.dy /\ ~d.topDown

\* an indexed image of 3 colours, 9 pixels wide and 2 high, was written at 2
\* bpp as 54 + 12 + 2 x 4 bytes and its header was accepted
C13_Witness ==
    /\ written /\ pc = "done" /\ m.kind = "Paletted" /\ Len(m.Palette) = 3
    /\ m.dx = 9 /\ m.dy = 2 /\ hBpp = 2 /\ hColors = U32(3)
    /\ Len(file) = 74 /\ io.cfgErr = "nil" /\ d.c.Width = 9

====
